---- MODULE Spec2Model ----
(***************************************************************************)
(* StorySky backend: the two revisions of backend/server.js.               *)
(*                                                                         *)
(* File-backed revision (src/unnamed/part_000).  Every mutating route handler of the file-backed server is an async      *)
(* function: it checks its input, mutates the in-memory collections,       *)
(* calls saveDB() (which serialises the collections at once and starts an  *)
(* asynchronous file write) and, after the write has completed, builds the *)
(* response.  A handler is therefore two steps: its synchronous part up to *)
(* `await saveDB()`, and its continuation.  Between the two, Node's event  *)
(* loop runs the handlers of other requests, and file writes started by    *)
(* different requests complete in no fixed order.                          *)
(*                                                                         *)
(* In-memory revision (src/server.js).  The same routes for stories,       *)
(* comments and users, with synchronous handlers (no saveDB, so a handler  *)
(* is one step), no enrichment, no likes in the PUT patch, and no like,    *)
(* activity, recommend or subscribe route.  Its actions are named Mem...   *)
(*                                                                         *)
(* A run is a run of one revision, from the seed dataset.  The clients     *)
(* send a bounded number of state-changing requests and any number of      *)
(* requests that are answered 400 or 404.                                  *)
(*                                                                         *)
(* Not modelled: createdAt (an immutable timestamp no handler reads), the  *)
(* `q` filter of the story listing, CORS and JSON body parsing.  A missing *)
(* request field and an empty one are both the empty string (both are      *)
(* falsy in the handlers' checks).                                         *)
(***************************************************************************)
EXTENDS Integers, Sequences, FiniteSets, TLC

\* ------------------------------------------------------------------ bounds
MaxReqs == 2         \* state-changing requests the clients of Spec send
MaxInflight == 2     \* requests waiting for their saveDB() at one time
MaxRecStories == 4   \* stories of the data.json SpecRec starts from
MaxRecReqs == 1      \* state-changing requests the clients of SpecRec send

VARIABLES
    revision,      \* which revision of backend/server.js runs: "file" or "memory"
    stories,       \* let stories: array of story objects, newest first
    users,         \* let users
    comments,      \* let comments
    disk,          \* data.json: <<>> when absent, <<document>> otherwise
    inflight,      \* handlers suspended at `await saveDB()`
    activityLog,   \* userActivity.json: its lines, oldest first
    pushLog,       \* webpush.sendNotification calls made so far
    nextId,        \* number of uuidv4() calls made so far
    resp,          \* response sent by the last step (NoResp when none)
    accepted,      \* history: state-changing requests accepted so far
    likeDone,      \* history: per story id, like requests answered 200
    likesPatched,  \* history: story ids whose likes a PUT has overwritten
    gone,          \* history: story ids whose DELETE was answered 204
    subscribed     \* history: endpoints whose /subscribe was answered 201

vars == <<revision, stories, users, comments, disk, inflight, activityLog, pushLog,
          nextId, resp, accepted, likeDone, likesPatched, gone, subscribed>>

FileBacked == revision = "file"

InMemory == revision = "memory"

\* ------------------------------------------------------------ seed and ids
SeedStory ==
    [id |-> "s1", title |-> "A Moonlit Night",
     body |-> "Once upon a moonlit night...", authorId |-> "u1",
     genre |-> "Fantasy", likes |-> 3]

SeedUser == [id |-> "u1", name |-> "Meghana M", bio |-> "Student", avatarUrl |-> ""]

\* The n-th uuidv4() result: fresh, and never a seed id.
Uuid(n) == "id" \o ToString(n)

\* Every id a story can have in a run of the model.
StoryIds == {"s1"} \cup {Uuid(n) : n \in 1..(MaxReqs + MaxRecStories + MaxRecReqs)}

\* Ids a client puts in a path: the id of every story and comment the
\* server holds, of every story it has deleted, and one it never held.
ReqIds ==
    {stories[i].id : i \in 1..Len(stories)}
    \cup {comments[i].id : i \in 1..Len(comments)} \cup gone \cup {"nope"}

NoResp == [op |-> "", status |-> 0]

\* --------------------------------------------------------------- utilities
\* Array.prototype.filter with the predicate "id field differs from x".
FilterOut(s, f, x) ==
    LET F[i \in 0..Len(s)] ==
            IF i = 0 THEN <<>>
            ELSE IF s[i][f] /= x THEN Append(F[i - 1], s[i]) ELSE F[i - 1]
    IN F[Len(s)]

\* Array.prototype.findIndex on the id field, 1-based; 0 when absent.
FindIndex(s, x) ==
    IF \E i \in 1..Len(s) : s[i].id = x
    THEN CHOOSE i \in 1..Len(s) : s[i].id = x /\ \A j \in 1..(i - 1) : s[j].id /= x
    ELSE 0

\* author ? author.name : "Unknown"
AuthorName(aid) ==
    IF FindIndex(users, aid) = 0 THEN "Unknown" ELSE users[FindIndex(users, aid)].name

\* { ...story, authorName }
Enrich(o) ==
    [k \in DOMAIN o \cup {"authorName"} |->
        IF k = "authorName" THEN AuthorName(o.authorId) ELSE o[k]]

\* The document saveDB() serialises: the three collections as they are now.
Document(st, us, co) == [stories |-> st, users |-> us, comments |-> co]

\* A story object a suspended handler holds a reference to.  While the
\* object is in the stories array (live) its fields are read from there;
\* once a DELETE has filtered it out nobody can change it any more and the
\* reference keeps the fields it had then.
Deref(ref) ==
    IF ref.live /\ FindIndex(stories, ref.val.id) /= 0
    THEN stories[FindIndex(stories, ref.val.id)]
    ELSE ref.val

NoRef == [live |-> FALSE, val |-> [id |-> "", authorId |-> ""]]

\* A handler suspended at `await saveDB()`.
Suspended(op, st, us, co, id, idx, ref) ==
    [op |-> op, snap |-> Document(st, us, co), id |-> id, idx |-> idx,
     ref |-> ref,
     before |-> {stories[i].id : i \in 1..Len(stories)},
     subs |-> subscribed]

\* ------------------------------------------------------------------- Init
Init ==
    /\ revision \in {"file", "memory"}
    /\ stories = <<SeedStory>>
    /\ users = <<SeedUser>>
    /\ comments = <<>>
    /\ disk = <<>>
    /\ inflight = <<>>
    /\ activityLog = <<>>
    /\ pushLog = {}
    /\ nextId = 0
    /\ resp = NoResp
    /\ accepted = 0
    /\ likeDone = [x \in StoryIds |-> 0]
    /\ likesPatched = {}
    /\ gone = {}
    /\ subscribed = {}

\* ------------------------------------------------- POST /api/stories
CreateBodies ==
    {[title |-> "T", body |-> "B", authorId |-> "u1", genre |-> "Fantasy"],
     [title |-> "T", body |-> "B", authorId |-> "nobody", genre |-> ""],
     [title |-> "", body |-> "B", authorId |-> "u1", genre |-> ""],
     [title |-> "T", body |-> "", authorId |-> "u1", genre |-> ""],
     [title |-> "T", body |-> "B", authorId |-> "", genre |-> ""]}

\* The check without its authorId operand.
StoryInvalidNoAuthor(b) == b.title = "" \/ b.body = ""

\* !title || !body || !authorId
StoryInvalid(b) == b.title = "" \/ b.body = "" \/ b.authorId = ""

NewStory(b, id) ==
    [id |-> id, title |-> b.title, body |-> b.body, authorId |-> b.authorId,
     genre |-> b.genre, likes |-> 0]

Unshift(s, e) == <<e>> \o s

history == <<likeDone, likesPatched, gone, subscribed>>

\* The clients send at most cap state-changing requests, and at most
\* MaxInflight of them are suspended at one time.
Admitted(cap) ==
    /\ accepted < cap
    /\ accepted' = accepted + 1
    /\ Len(inflight) < MaxInflight

CreateStoryRejected(b) ==
    /\ FileBacked
    /\ StoryInvalid(b)
    /\ resp' = [op |-> "createStory", status |-> 400]
    /\ UNCHANGED <<revision, stories, users, comments, disk, inflight, activityLog,
                   pushLog, nextId, accepted, history>>

CreateStory(b, cap) ==
    /\ FileBacked
    /\ ~StoryInvalid(b)
    /\ Admitted(cap)
    /\ LET new == NewStory(b, Uuid(nextId + 1))
           st == Unshift(stories, new)
       IN /\ stories' = st
          /\ inflight' = Append(inflight,
                Suspended("createStory", st, users, comments, new.id, 0,
                          [live |-> TRUE, val |-> new]))
    /\ nextId' = nextId + 1
    /\ resp' = NoResp
    /\ UNCHANGED <<revision, users, comments, disk, activityLog, pushLog, history>>

\* ------------------------------------------------- PUT /api/stories/:id
\* A request body field is <<>> when undefined and <<v>> when given.
Patches ==
    {[title |-> <<"T2">>, body |-> <<>>, genre |-> <<"Horror">>, likes |-> <<>>],
     [title |-> <<>>, body |-> <<"B2">>, genre |-> <<>>, likes |-> <<0>>]}

\* if (f !== undefined) stories[idx].f = f, for title, body, genre, likes
ApplyPatch(s, p) ==
    [s EXCEPT !.title = IF p.title /= <<>> THEN p.title[1] ELSE @,
              !.body = IF p.body /= <<>> THEN p.body[1] ELSE @,
              !.genre = IF p.genre /= <<>> THEN p.genre[1] ELSE @,
              !.likes = IF p.likes /= <<>> THEN p.likes[1] ELSE @]

UpdateStoryNotFound(id) ==
    /\ FileBacked
    /\ FindIndex(stories, id) = 0
    /\ resp' = [op |-> "updateStory", status |-> 404]
    /\ UNCHANGED <<revision, stories, users, comments, disk, inflight, activityLog,
                   pushLog, nextId, accepted, history>>

UpdateStory(id, p, cap) ==
    /\ FileBacked
    /\ FindIndex(stories, id) /= 0
    /\ Admitted(cap)
    /\ LET idx == FindIndex(stories, id)
           st == [stories EXCEPT ![idx] = ApplyPatch(@, p)]
       IN /\ stories' = st
          /\ inflight' = Append(inflight,
                Suspended("updateStory", st, users, comments, id, idx, NoRef))
    /\ likesPatched' = IF p.likes /= <<>> THEN likesPatched \cup {id}
                       ELSE likesPatched
    /\ resp' = NoResp
    /\ UNCHANGED <<revision, users, comments, disk, activityLog, pushLog, nextId,
                   likeDone, gone, subscribed>>

\* ------------------------------------------------- DELETE /api/stories/:id
\* stories.filter((s) => s.id !== id)
WithoutStory(st, id) == FilterOut(st, "id", id)

\* The cascade left out.
WithoutCommentsOfKeepsAll(co, id) == co

\* The cascade filtering on the comment's own id.
WithoutCommentsOfById(co, id) == FilterOut(co, "id", id)

\* comments.filter((c) => c.storyId !== id)
WithoutCommentsOf(co, id) == FilterOut(co, "storyId", id)

\* References suspended handlers hold to the story object that leaves the
\* array: the object lives on, unchanged from now on.
Detach(q, id) ==
    [i \in 1..Len(q) |->
        IF q[i].ref.live /\ q[i].ref.val.id = id
        THEN [q[i] EXCEPT !.ref = [live |-> FALSE, val |-> Deref(q[i].ref)]]
        ELSE q[i]]

\* Both filters run before the length test, on either path.
DeleteStoryNotFound(id) ==
    /\ FileBacked
    /\ Len(WithoutStory(stories, id)) = Len(stories)
    /\ stories' = WithoutStory(stories, id)
    /\ comments' = WithoutCommentsOf(comments, id)
    /\ resp' = [op |-> "deleteStory", status |-> 404]
    /\ UNCHANGED <<revision, users, disk, inflight, activityLog, pushLog, nextId, accepted, history>>

DeleteStory(id, cap) ==
    /\ FileBacked
    /\ Len(WithoutStory(stories, id)) /= Len(stories)
    /\ Admitted(cap)
    /\ LET st == WithoutStory(stories, id)
           co == WithoutCommentsOf(comments, id)
       IN /\ stories' = st
          /\ comments' = co
          /\ inflight' = Append(Detach(inflight, id),
                Suspended("deleteStory", st, users, co, id, 0, NoRef))
    /\ resp' = NoResp
    /\ UNCHANGED <<revision, users, disk, activityLog, pushLog, nextId, history>>

\* ------------------------------------------------- POST /api/stories/:id/like
\* story.likes = 1
LikedAssigned(s) == [s EXCEPT !.likes = 1]

\* story.likes += 1
Liked(s) == [s EXCEPT !.likes = @ + 1]

LikeStoryNotFound(id) ==
    /\ FileBacked
    /\ FindIndex(stories, id) = 0
    /\ resp' = [op |-> "likeStory", status |-> 404]
    /\ UNCHANGED <<revision, stories, users, comments, disk, inflight, activityLog,
                   pushLog, nextId, accepted, history>>

LikeStory(id, cap) ==
    /\ FileBacked
    /\ FindIndex(stories, id) /= 0
    /\ Admitted(cap)
    /\ LET idx == FindIndex(stories, id)
           st == [stories EXCEPT ![idx] = Liked(@)]
       IN /\ stories' = st
          /\ inflight' = Append(inflight,
                Suspended("likeStory", st, users, comments, id, 0,
                          [live |-> TRUE, val |-> st[idx]]))
    /\ resp' = NoResp
    /\ UNCHANGED <<revision, users, comments, disk, activityLog, pushLog, nextId, history>>

\* ------------------------------------------------- POST /api/stories/:id/comments
CommentBodies ==
    {[authorId |-> "u1", text |-> "hi"], [authorId |-> "", text |-> "hi"],
     [authorId |-> "u1", text |-> ""]}

\* !authorId || !text
CommentInvalid(b) == b.authorId = "" \/ b.text = ""

\* storyId taken from the comment's own id.
NewCommentOwnId(id, storyId, b) ==
    [id |-> id, storyId |-> id, authorId |-> b.authorId, text |-> b.text]

\* storyId: story.id, of the story found by the path id
NewComment(id, storyId, b) ==
    [id |-> id, storyId |-> storyId, authorId |-> b.authorId, text |-> b.text]

CreateCommentNotFound(id, b) ==
    /\ FileBacked
    /\ FindIndex(stories, id) = 0
    /\ resp' = [op |-> "createComment", status |-> 404]
    /\ UNCHANGED <<revision, stories, users, comments, disk, inflight, activityLog,
                   pushLog, nextId, accepted, history>>

CreateCommentRejected(id, b) ==
    /\ FileBacked
    /\ FindIndex(stories, id) /= 0
    /\ CommentInvalid(b)
    /\ resp' = [op |-> "createComment", status |-> 400]
    /\ UNCHANGED <<revision, stories, users, comments, disk, inflight, activityLog,
                   pushLog, nextId, accepted, history>>

CreateComment(id, b, cap) ==
    /\ FileBacked
    /\ FindIndex(stories, id) /= 0
    /\ ~CommentInvalid(b)
    /\ Admitted(cap)
    /\ LET story == stories[FindIndex(stories, id)]
           new == NewComment(Uuid(nextId + 1), story.id, b)
           co == Append(comments, new)
       IN /\ comments' = co
          /\ inflight' = Append(inflight,
                Suspended("createComment", stories, users, co, new.id, 0,
                          [live |-> FALSE, val |-> new]))
    /\ nextId' = nextId + 1
    /\ resp' = NoResp
    /\ UNCHANGED <<revision, stories, users, disk, activityLog, pushLog, history>>

\* ------------------------------------------------- DELETE /api/comments/:commentId
\* comments.filter((c) => c.id !== commentId)
WithoutComment(co, cid) == FilterOut(co, "id", cid)

DeleteCommentNotFound(cid) ==
    /\ FileBacked
    /\ Len(WithoutComment(comments, cid)) = Len(comments)
    /\ comments' = WithoutComment(comments, cid)
    /\ resp' = [op |-> "deleteComment", status |-> 404]
    /\ UNCHANGED <<revision, stories, users, disk, inflight, activityLog, pushLog,
                   nextId, accepted, history>>

DeleteComment(cid, cap) ==
    /\ FileBacked
    /\ Len(WithoutComment(comments, cid)) /= Len(comments)
    /\ Admitted(cap)
    /\ LET co == WithoutComment(comments, cid)
       IN /\ comments' = co
          /\ inflight' = Append(inflight,
                Suspended("deleteComment", stories, users, co, cid, 0, NoRef))
    /\ resp' = NoResp
    /\ UNCHANGED <<revision, stories, users, disk, activityLog, pushLog, nextId, history>>

\* ------------------------------------------------- POST /api/users
UserBodies == {[name |-> "Ada", email |-> ""], [name |-> "", email |-> "a@x"]}

\* { id: uuidv4(), name, email: email || "", bio: "" }
NewUser(id, b) == [id |-> id, name |-> b.name, email |-> b.email, bio |-> ""]

CreateUserRejected(b) ==
    /\ FileBacked
    /\ b.name = ""
    /\ resp' = [op |-> "createUser", status |-> 400]
    /\ UNCHANGED <<revision, stories, users, comments, disk, inflight, activityLog,
                   pushLog, nextId, accepted, history>>

CreateUser(b, cap) ==
    /\ FileBacked
    /\ b.name /= ""
    /\ Admitted(cap)
    /\ LET new == NewUser(Uuid(nextId + 1), b)
           us == Append(users, new)
       IN /\ users' = us
          /\ inflight' = Append(inflight,
                Suspended("createUser", stories, us, comments, new.id, 0,
                          [live |-> FALSE, val |-> new]))
    /\ nextId' = nextId + 1
    /\ resp' = NoResp
    /\ UNCHANGED <<revision, stories, comments, disk, activityLog, pushLog, history>>

\* ------------------------------------------------- POST /api/userActivity
ActivityBodies(uids, sids) ==
    {[userId |-> u, viewedStoryId |-> v] : u \in uids, v \in sids}

\* fs.appendFileSync(activityFile, JSON.stringify({...}) + "\n"): one line
\* per record; the strings of the model hold no line break.
AppendLine(log, b) ==
    Append(log, [userId |-> b.userId, viewedStoryId |-> b.viewedStoryId])

RecordActivityRejected(b) ==
    /\ FileBacked
    /\ b.userId = "" \/ b.viewedStoryId = ""
    /\ resp' = [op |-> "recordActivity", status |-> 400]
    /\ UNCHANGED <<revision, stories, users, comments, disk, inflight, activityLog,
                   pushLog, nextId, accepted, history>>

RecordActivity(b, cap) ==
    /\ FileBacked
    /\ b.userId /= "" /\ b.viewedStoryId /= ""
    /\ accepted < cap
    /\ accepted' = accepted + 1
    /\ activityLog' = AppendLine(activityLog, b)
    /\ resp' = [op |-> "recordActivity", status |-> 200]
    /\ UNCHANGED <<revision, stories, users, comments, disk, inflight, pushLog, nextId,
                   history>>

\* ------------------------------------------------- POST /subscribe
Endpoints == {"", "https://push/e1"}

SubscribeRejected(e) ==
    /\ FileBacked
    /\ e = ""
    /\ resp' = [op |-> "subscribe", status |-> 400]
    /\ UNCHANGED <<revision, stories, users, comments, disk, inflight, activityLog,
                   pushLog, nextId, accepted, history>>

\* The test notification is sent to the subscription of the request; its
\* outcome only reaches console.error.  The subscription is stored nowhere.
Subscribe(e, cap) ==
    /\ FileBacked
    /\ e /= ""
    /\ accepted < cap
    /\ accepted' = accepted + 1
    /\ pushLog' = pushLog \cup {[endpoint |-> e, cause |-> "subscribe"]}
    /\ subscribed' = subscribed \cup {e}
    /\ resp' = [op |-> "subscribe", status |-> 201]
    /\ UNCHANGED <<revision, stories, users, comments, disk, inflight, activityLog,
                   nextId, likeDone, likesPatched, gone>>

\* ------------------------------------------------- continuations
Remove(s, i) == SubSeq(s, 1, i - 1) \o SubSeq(s, i + 1, Len(s))

\* fs.writeJson of request i completes: the file now holds what that request
\* serialised, whichever request started its write first.
Written(i, op) ==
    /\ i \in 1..Len(inflight)
    /\ inflight[i].op = op
    /\ disk' = <<inflight[i].snap>>
    /\ inflight' = Remove(inflight, i)

CreateStoryResumed(i) ==
    /\ Written(i, "createStory")
    /\ resp' = [op |-> "createStory", status |-> 201,
                body |-> Enrich(Deref(inflight[i].ref)),
                before |-> inflight[i].before, subs |-> inflight[i].subs]
    /\ UNCHANGED <<revision, stories, users, comments, activityLog, pushLog, nextId,
                   accepted, history>>

\* stories[idx] with the index found before the await: undefined when the
\* array has become shorter, and reading .authorId of undefined throws.
UpdateStoryResumed(i) ==
    /\ Written(i, "updateStory")
    /\ resp' = IF inflight[i].idx <= Len(stories)
               THEN [op |-> "updateStory", status |-> 200,
                     body |-> Enrich(stories[inflight[i].idx]),
                     id |-> inflight[i].id]
               ELSE [op |-> "updateStory", status |-> 500]
    /\ UNCHANGED <<revision, stories, users, comments, activityLog, pushLog, nextId,
                   accepted, history>>

DeleteStoryResumed(i) ==
    /\ Written(i, "deleteStory")
    /\ resp' = [op |-> "deleteStory", status |-> 204]
    /\ gone' = gone \cup {inflight[i].id}
    /\ UNCHANGED <<revision, stories, users, comments, activityLog, pushLog, nextId,
                   accepted, likeDone, likesPatched, subscribed>>

LikeStoryResumed(i) ==
    /\ Written(i, "likeStory")
    /\ resp' = [op |-> "likeStory", status |-> 200,
                body |-> Enrich(Deref(inflight[i].ref))]
    /\ likeDone' = [likeDone EXCEPT ![inflight[i].id] = @ + 1]
    /\ UNCHANGED <<revision, stories, users, comments, activityLog, pushLog, nextId,
                   accepted, likesPatched, gone, subscribed>>

CreateCommentResumed(i) ==
    /\ Written(i, "createComment")
    /\ resp' = [op |-> "createComment", status |-> 201,
                body |-> Enrich(inflight[i].ref.val)]
    /\ UNCHANGED <<revision, stories, users, comments, activityLog, pushLog, nextId,
                   accepted, history>>

DeleteCommentResumed(i) ==
    /\ Written(i, "deleteComment")
    /\ resp' = [op |-> "deleteComment", status |-> 204]
    /\ UNCHANGED <<revision, stories, users, comments, activityLog, pushLog, nextId,
                   accepted, history>>

CreateUserResumed(i) ==
    /\ Written(i, "createUser")
    /\ resp' = [op |-> "createUser", status |-> 201, body |-> inflight[i].ref.val]
    /\ UNCHANGED <<revision, stories, users, comments, activityLog, pushLog, nextId,
                   accepted, history>>

Resumed(i) ==
    \/ CreateStoryResumed(i)
    \/ UpdateStoryResumed(i)
    \/ DeleteStoryResumed(i)
    \/ LikeStoryResumed(i)
    \/ CreateCommentResumed(i)
    \/ DeleteCommentResumed(i)
    \/ CreateUserResumed(i)

\* ------------------------------------------------- in-memory revision
\* app.post('/api/stories'): res.status(201).json(newStory)
MemCreateStoryRejected(b) ==
    /\ InMemory
    /\ StoryInvalid(b)
    /\ resp' = [op |-> "createStory", status |-> 400]
    /\ UNCHANGED <<revision, stories, users, comments, disk, inflight,
                   activityLog, pushLog, nextId, accepted, history>>

MemCreateStory(b, cap) ==
    /\ InMemory
    /\ ~StoryInvalid(b)
    /\ accepted < cap
    /\ accepted' = accepted + 1
    /\ stories' = Unshift(stories, NewStory(b, Uuid(nextId + 1)))
    /\ nextId' = nextId + 1
    /\ resp' = [op |-> "createStory", status |-> 201,
                body |-> NewStory(b, Uuid(nextId + 1)),
                before |-> {stories[i].id : i \in 1..Len(stories)},
                subs |-> subscribed]
    /\ UNCHANGED <<revision, users, comments, disk, inflight, activityLog,
                   pushLog, history>>

\* const { title, body, genre } = req.body: likes is not read.
MemApplyPatch(s, p) ==
    [s EXCEPT !.title = IF p.title /= <<>> THEN p.title[1] ELSE @,
              !.body = IF p.body /= <<>> THEN p.body[1] ELSE @,
              !.genre = IF p.genre /= <<>> THEN p.genre[1] ELSE @]

MemUpdateStoryNotFound(id) ==
    /\ InMemory
    /\ FindIndex(stories, id) = 0
    /\ resp' = [op |-> "updateStory", status |-> 404]
    /\ UNCHANGED <<revision, stories, users, comments, disk, inflight,
                   activityLog, pushLog, nextId, accepted, history>>

MemUpdateStory(id, p, cap) ==
    /\ InMemory
    /\ FindIndex(stories, id) /= 0
    /\ accepted < cap
    /\ accepted' = accepted + 1
    /\ stories' = [stories EXCEPT ![FindIndex(stories, id)] = MemApplyPatch(@, p)]
    /\ resp' = [op |-> "updateStory", status |-> 200,
                body |-> stories'[FindIndex(stories, id)], id |-> id]
    /\ UNCHANGED <<revision, users, comments, disk, inflight, activityLog,
                   pushLog, nextId, history>>

\* The length test comes before the comments filter.
MemDeleteStoryNotFound(id) ==
    /\ InMemory
    /\ Len(WithoutStory(stories, id)) = Len(stories)
    /\ stories' = WithoutStory(stories, id)
    /\ resp' = [op |-> "deleteStory", status |-> 404]
    /\ UNCHANGED <<revision, users, comments, disk, inflight, activityLog,
                   pushLog, nextId, accepted, history>>

MemDeleteStory(id, cap) ==
    /\ InMemory
    /\ Len(WithoutStory(stories, id)) /= Len(stories)
    /\ accepted < cap
    /\ accepted' = accepted + 1
    /\ stories' = WithoutStory(stories, id)
    /\ comments' = WithoutCommentsOf(comments, id)
    /\ resp' = [op |-> "deleteStory", status |-> 204]
    /\ gone' = gone \cup {id}
    /\ UNCHANGED <<revision, users, disk, inflight, activityLog, pushLog,
                   nextId, likeDone, likesPatched, subscribed>>

MemCreateCommentNotFound(id, b) ==
    /\ InMemory
    /\ FindIndex(stories, id) = 0
    /\ resp' = [op |-> "createComment", status |-> 404]
    /\ UNCHANGED <<revision, stories, users, comments, disk, inflight,
                   activityLog, pushLog, nextId, accepted, history>>

MemCreateCommentRejected(id, b) ==
    /\ InMemory
    /\ FindIndex(stories, id) /= 0
    /\ CommentInvalid(b)
    /\ resp' = [op |-> "createComment", status |-> 400]
    /\ UNCHANGED <<revision, stories, users, comments, disk, inflight,
                   activityLog, pushLog, nextId, accepted, history>>

MemCreateComment(id, b, cap) ==
    /\ InMemory
    /\ FindIndex(stories, id) /= 0
    /\ ~CommentInvalid(b)
    /\ accepted < cap
    /\ accepted' = accepted + 1
    /\ LET new == NewComment(Uuid(nextId + 1),
                             stories[FindIndex(stories, id)].id, b)
       IN /\ comments' = Append(comments, new)
          /\ resp' = [op |-> "createComment", status |-> 201, body |-> new]
    /\ nextId' = nextId + 1
    /\ UNCHANGED <<revision, stories, users, disk, inflight, activityLog,
                   pushLog, history>>

MemDeleteCommentNotFound(cid) ==
    /\ InMemory
    /\ Len(WithoutComment(comments, cid)) = Len(comments)
    /\ comments' = WithoutComment(comments, cid)
    /\ resp' = [op |-> "deleteComment", status |-> 404]
    /\ UNCHANGED <<revision, stories, users, disk, inflight, activityLog,
                   pushLog, nextId, accepted, history>>

MemDeleteComment(cid, cap) ==
    /\ InMemory
    /\ Len(WithoutComment(comments, cid)) /= Len(comments)
    /\ accepted < cap
    /\ accepted' = accepted + 1
    /\ comments' = WithoutComment(comments, cid)
    /\ resp' = [op |-> "deleteComment", status |-> 204]
    /\ UNCHANGED <<revision, stories, users, disk, inflight, activityLog,
                   pushLog, nextId, history>>

MemCreateUserRejected(b) ==
    /\ InMemory
    /\ b.name = ""
    /\ resp' = [op |-> "createUser", status |-> 400]
    /\ UNCHANGED <<revision, stories, users, comments, disk, inflight,
                   activityLog, pushLog, nextId, accepted, history>>

MemCreateUser(b, cap) ==
    /\ InMemory
    /\ b.name /= ""
    /\ accepted < cap
    /\ accepted' = accepted + 1
    /\ users' = Append(users, NewUser(Uuid(nextId + 1), b))
    /\ nextId' = nextId + 1
    /\ resp' = [op |-> "createUser", status |-> 201,
                body |-> NewUser(Uuid(nextId + 1), b)]
    /\ UNCHANGED <<revision, stories, comments, disk, inflight, activityLog,
                   pushLog, history>>

\* ------------------------------------------------- read-only handlers
\* GET /api/stories (no q): every story, enriched, in array order.
ListStories ==
    [status |-> 200, data |-> [i \in 1..Len(stories) |-> Enrich(stories[i])]]

\* comments.filter((c) => c.storyId === story.id).map(enrich)
CommentsOf(sid) ==
    LET F[i \in 0..Len(comments)] ==
            IF i = 0 THEN <<>>
            ELSE IF comments[i].storyId = sid
                 THEN Append(F[i - 1], Enrich(comments[i])) ELSE F[i - 1]
    IN F[Len(comments)]

\* GET /api/stories/:id
GetStory(id) ==
    IF FindIndex(stories, id) = 0 THEN [status |-> 404]
    ELSE [status |-> 200, body |-> Enrich(stories[FindIndex(stories, id)]),
          comments |-> CommentsOf(id)]

\* GET /api/stories/:id/comments
ListComments(id) ==
    IF FindIndex(stories, id) = 0 THEN [status |-> 404]
    ELSE [status |-> 200, body |-> CommentsOf(id)]

\* In-memory revision: the same lookups, nothing enriched.
MemListStories == [status |-> 200, data |-> stories]

MemCommentsOf(sid) ==
    LET F[i \in 0..Len(comments)] ==
            IF i = 0 THEN <<>>
            ELSE IF comments[i].storyId = sid
                 THEN Append(F[i - 1], comments[i]) ELSE F[i - 1]
    IN F[Len(comments)]

MemGetStory(id) ==
    IF FindIndex(stories, id) = 0 THEN [status |-> 404]
    ELSE [status |-> 200, body |-> stories[FindIndex(stories, id)],
          comments |-> MemCommentsOf(id)]

MemListComments(id) ==
    IF FindIndex(stories, id) = 0 THEN [status |-> 404]
    ELSE [status |-> 200, body |-> MemCommentsOf(id)]

\* GET /api/users/:id (both revisions)
GetUser(id) ==
    IF FindIndex(users, id) = 0 THEN [status |-> 404]
    ELSE [status |-> 200, body |-> users[FindIndex(users, id)]]

\* ------------------------------------------------- GET /api/recommend/:userId
\* The file is absent until the first append; after it, every line parses to
\* the record written.  allActivity.filter((a) => a.userId === userId)
GetUserHistory(userId) ==
    IF activityLog = <<>> THEN <<>>
    ELSE LET F[i \in 0..Len(activityLog)] ==
                 IF i = 0 THEN <<>>
                 ELSE IF activityLog[i].userId = userId
                      THEN Append(F[i - 1], activityLog[i]) ELSE F[i - 1]
         IN F[Len(activityLog)]

RecommendLimit == 3

\* userHistory[0]
FirstViewed(h) == h[1]

\* userHistory[userHistory.length - 1]
LastViewed(h) == h[Len(h)]

\* stories.filter((s) => s.genre === lastGenre && s.id !== viewedStory.id)
SameGenre(viewed) ==
    LET F[i \in 0..Len(stories)] ==
            IF i = 0 THEN <<>>
            ELSE IF stories[i].genre = viewed.genre /\ stories[i].id /= viewed.id
                 THEN Append(F[i - 1], stories[i]) ELSE F[i - 1]
    IN F[Len(stories)]

\* .slice(0, 3)
Slice(s) == SubSeq(s, 1, IF Len(s) < RecommendLimit THEN Len(s) ELSE RecommendLimit)

Recommend(userId) ==
    LET h == GetUserHistory(userId) IN
    IF Len(h) = 0 THEN [status |-> 200, body |-> <<>>]
    ELSE LET idx == FindIndex(stories, LastViewed(h).viewedStoryId) IN
         IF idx = 0 THEN [status |-> 200, body |-> <<>>]
         ELSE [status |-> 200, body |-> Slice(SameGenre(stories[idx]))]

\* ------------------------------------------------- the two revisions
ActivityUsers == {"", "u1", "u2"}

Next ==
    \/ \E b \in CreateBodies : CreateStoryRejected(b)
    \/ \E b \in CreateBodies : CreateStory(b, MaxReqs)
    \/ \E id \in ReqIds : UpdateStoryNotFound(id)
    \/ \E id \in ReqIds, p \in Patches : UpdateStory(id, p, MaxReqs)
    \/ \E id \in ReqIds : DeleteStoryNotFound(id)
    \/ \E id \in ReqIds : DeleteStory(id, MaxReqs)
    \/ \E id \in ReqIds : LikeStoryNotFound(id)
    \/ \E id \in ReqIds : LikeStory(id, MaxReqs)
    \/ \E id \in ReqIds, b \in CommentBodies : CreateCommentNotFound(id, b)
    \/ \E id \in ReqIds, b \in CommentBodies : CreateCommentRejected(id, b)
    \/ \E id \in ReqIds, b \in CommentBodies : CreateComment(id, b, MaxReqs)
    \/ \E id \in ReqIds : DeleteCommentNotFound(id)
    \/ \E id \in ReqIds : DeleteComment(id, MaxReqs)
    \/ \E b \in UserBodies : CreateUserRejected(b)
    \/ \E b \in UserBodies : CreateUser(b, MaxReqs)
    \/ \E b \in ActivityBodies(ActivityUsers, ReqIds \cup {""}) :
            RecordActivityRejected(b)
    \/ \E b \in ActivityBodies(ActivityUsers, ReqIds \cup {""}) :
            RecordActivity(b, MaxReqs)
    \/ \E e \in Endpoints : SubscribeRejected(e)
    \/ \E e \in Endpoints : Subscribe(e, MaxReqs)
    \/ \E i \in 1..MaxInflight : Resumed(i)
    \/ \E b \in CreateBodies : MemCreateStoryRejected(b)
    \/ \E b \in CreateBodies : MemCreateStory(b, MaxReqs)
    \/ \E id \in ReqIds : MemUpdateStoryNotFound(id)
    \/ \E id \in ReqIds, p \in Patches : MemUpdateStory(id, p, MaxReqs)
    \/ \E id \in ReqIds : MemDeleteStoryNotFound(id)
    \/ \E id \in ReqIds : MemDeleteStory(id, MaxReqs)
    \/ \E id \in ReqIds, b \in CommentBodies : MemCreateCommentNotFound(id, b)
    \/ \E id \in ReqIds, b \in CommentBodies : MemCreateCommentRejected(id, b)
    \/ \E id \in ReqIds, b \in CommentBodies : MemCreateComment(id, b, MaxReqs)
    \/ \E id \in ReqIds : MemDeleteCommentNotFound(id)
    \/ \E id \in ReqIds : MemDeleteComment(id, MaxReqs)
    \/ \E b \in UserBodies : MemCreateUserRejected(b)
    \/ \E b \in UserBodies : MemCreateUser(b, MaxReqs)

Spec == Init /\ [][Next]_vars

\* ------------------------------------------------- recommendations
\* SpecRec starts the server on the files an earlier run has written: a
\* data.json of MaxRecStories stories created after the seed story (newest
\* first), each of one of two genres, and a userActivity.json that is absent
\* or holds one line.  Its clients record views and create, patch and delete
\* stories.
RecGenres == {"Fantasy", "Horror"}

LoadedStories(g) ==
    [i \in 1..(MaxRecStories + 1) |->
        IF i = MaxRecStories + 1 THEN SeedStory
        ELSE [id |-> Uuid(MaxRecStories + 1 - i), title |-> "T", body |-> "B",
              authorId |-> "u1", genre |-> g[MaxRecStories + 1 - i], likes |-> 0]]

RecUsers == {"u1", "u2"}

InitRec ==
    /\ revision = "file"
    /\ \E g \in [1..MaxRecStories -> RecGenres] : stories = LoadedStories(g)
    /\ users = <<SeedUser>>
    /\ comments = <<>>
    /\ disk = <<Document(stories, users, comments)>>
    /\ inflight = <<>>
    /\ activityLog \in {<<>>} \cup {<<b>> : b \in ActivityBodies(RecUsers, {"s1", Uuid(1)})}
    /\ pushLog = {}
    /\ nextId = MaxRecStories
    /\ resp = NoResp
    /\ accepted = 0
    /\ likeDone = [x \in StoryIds |-> 0]
    /\ likesPatched = {}
    /\ gone = {}
    /\ subscribed = {}

NextRec ==
    \/ \E b \in ActivityBodies(RecUsers, ReqIds) : RecordActivity(b, MaxRecReqs)
    \/ \E b \in CreateBodies : CreateStory(b, MaxRecReqs)
    \/ \E id \in ReqIds, p \in Patches : UpdateStory(id, p, MaxRecReqs)
    \/ \E id \in ReqIds : DeleteStory(id, MaxRecReqs)
    \/ \E i \in 1..MaxInflight :
            CreateStoryResumed(i) \/ UpdateStoryResumed(i) \/ DeleteStoryResumed(i)

SpecRec == InitRec /\ [][NextRec]_vars

\* =================================================================== claims

\* C1: once DELETE /api/stories/X has been answered 204, no comment with
\* storyId X is in the comments collection, and GET /api/stories/X and
\* GET /api/stories/X/comments answer 404, whatever was and is requested.
C1_DeletedStoryStaysGone ==
    \A x \in gone :
        /\ \A i \in 1..Len(comments) : comments[i].storyId /= x
        /\ (IF InMemory THEN MemGetStory(x) ELSE GetStory(x)).status = 404
        /\ (IF InMemory THEN MemListComments(x) ELSE ListComments(x)).status = 404

\* A story is deleted (204) while the request that commented on it is still
\* suspended at its saveDB().
C1_Witness ==
    \E x \in gone : \E i \in 1..Len(inflight) :
        inflight[i].op = "createComment" /\ inflight[i].ref.val.storyId = x

\* C2: a story whose likes no PUT has overwritten holds its initial likes
\* plus one for every like request accepted for it, answered or suspended.
InitialLikes(id) == IF id = SeedStory.id THEN SeedStory.likes ELSE 0

PendingLikes(id) ==
    Cardinality({i \in 1..Len(inflight) :
                    inflight[i].op = "likeStory" /\ inflight[i].id = id})

C2_LikesCounted ==
    \A i \in 1..Len(stories) :
        stories[i].id \notin likesPatched =>
            stories[i].likes = InitialLikes(stories[i].id)
                               + likeDone[stories[i].id]
                               + PendingLikes(stories[i].id)

\* Two like requests for the seed story overlapped: the first is answered
\* while the second is suspended.
C2_Witness ==
    /\ likeDone["s1"] = 1
    /\ PendingLikes("s1") = 1
    /\ "s1" \notin likesPatched
    /\ FindIndex(stories, "s1") /= 0

\* C3: the story a 201 of POST /api/stories returns has an id no story had
\* before the call, has likes 0, and is the first story of the listing.
C3_CreatedIsFreshAndFirst ==
    (resp.op = "createStory" /\ resp.status = 201) =>
        /\ resp.body.id \notin resp.before
        /\ resp.body.likes = 0
        /\ (IF InMemory THEN MemListStories ELSE ListStories).data /= <<>>
        /\ (IF InMemory THEN MemListStories ELSE ListStories).data[1].id
             = resp.body.id

\* C4: GET /api/recommend/u answers 200 with: nothing when the log holds no
\* record of u; nothing when the story of u's last record is gone; else the
\* first RecommendLimit stories, in array order, of the genre of that story
\* and other than it.
RecordsOf(u) == {i \in 1..Len(activityLog) : activityLog[i].userId = u}

LastRecordOf(u) ==
    activityLog[CHOOSE i \in RecordsOf(u) : \A j \in RecordsOf(u) : j <= i]

Candidates(v) ==
    {i \in 1..Len(stories) :
        stories[i].genre = v.genre /\ stories[i].id /= v.id}

\* r lists the stories at the smallest positions of the set c, in order.
IsPrefixOfCandidates(r, c) ==
    /\ Len(r) = (IF Cardinality(c) < RecommendLimit THEN Cardinality(c)
                 ELSE RecommendLimit)
    /\ \A k \in 1..Len(r) :
          \E i \in c : /\ Cardinality({j \in c : j < i}) = k - 1
                       /\ r[k] = stories[i]

C4_RecommendSpec ==
    \A u \in RecUsers \cup {"u3"} :
        /\ Recommend(u).status = 200
        /\ IF RecordsOf(u) = {} THEN Recommend(u).body = <<>>
           ELSE IF \A i \in 1..Len(stories) :
                      stories[i].id /= LastRecordOf(u).viewedStoryId
                THEN Recommend(u).body = <<>>
                ELSE IsPrefixOfCandidates(
                        Recommend(u).body,
                        Candidates(stories[FindIndex(stories,
                                       LastRecordOf(u).viewedStoryId)]))

\* A user with two records, of two stories, whose last viewed story has
\* more than RecommendLimit stories of its genre.
C4_Witness ==
    \E u \in RecUsers :
        /\ Cardinality(RecordsOf(u)) = 2
        /\ FindIndex(stories, LastRecordOf(u).viewedStoryId) /= 0
        /\ activityLog[1].viewedStoryId /= LastRecordOf(u).viewedStoryId
        /\ Cardinality(Candidates(stories[FindIndex(stories,
                          LastRecordOf(u).viewedStoryId)])) > RecommendLimit
        /\ Len(Recommend(u).body) = RecommendLimit

\* C5: when POST /api/stories is answered 201, a notification for that
\* creation has been dispatched to every endpoint subscribed before it.
C5_CreationNotifiesSubscribers ==
    (resp.op = "createStory" /\ resp.status = 201) =>
        \A e \in resp.subs : [endpoint |-> e, cause |-> "createStory"] \in pushLog

\* C6 as stated: the authorId of every story is the id of a user.
C6_AuthorExists ==
    \A i \in 1..Len(stories) : FindIndex(users, stories[i].authorId) /= 0

\* C6 as amended: the authorId of every story is non-empty (a create request
\* without one adds no story); it need not be the id of a user.
C6_AuthorIdGiven ==
    \A i \in 1..Len(stories) : stories[i].authorId /= ""

\* The file-backed revision has returned (201) a created story whose
\* authorId matches no user, with the author name "Unknown".
C6_Witness ==
    /\ FileBacked
    /\ resp.op = "createStory" /\ resp.status = 201
    /\ FindIndex(users, resp.body.authorId) = 0
    /\ resp.body.authorName = "Unknown"
    /\ FindIndex(stories, resp.body.id) /= 0

\* C7: when data.json has been written and no write is pending, it holds the
\* three collections as they are in memory.
C7_DiskMirrorsMemory ==
    (inflight = <<>> /\ disk /= <<>>) =>
        disk[1] = Document(stories, users, comments)

\* C8: a step that answers 400 or 404 leaves stories, users, comments and
\* the activity log as they were.
C8_ErrorsChangeNothing ==
    [][resp'.status \in {400, 404} =>
          /\ stories' = stories
          /\ users' = users
          /\ comments' = comments
          /\ activityLog' = activityLog]_vars

\* DELETE /api/stories/:id of the file-backed revision has answered 404
\* (after running both of its filters) while the comments collection holds
\* a comment.
C8_Witness ==
    /\ FileBacked
    /\ resp.op = "deleteStory" /\ resp.status = 404
    /\ comments /= <<>>

\* C9: the answer to PUT /api/stories/:id, once the story was found, is 200
\* with the story of the requested id.
C9_UpdateAnswersItsStory ==
    resp.op = "updateStory" /\ resp.status /= 404 =>
        resp.status = 200 /\ resp.body.id = resp.id

\* C10: every comment's storyId is the id of a story in the stories array.
C10_CommentsHaveStory ==
    \A i \in 1..Len(comments) : FindIndex(stories, comments[i].storyId) /= 0

\* A comment has been created (201) and is in the collection.
C10_Witness ==
    /\ resp.op = "createComment" /\ resp.status = 201
    /\ FindIndex(comments, resp.body.id) /= 0

====
